---------------------------- MODULE Spec2Model ----------------------------
(***************************************************************************)
(* State-machine model of public/script.js, the browser-side controller   *)
(* of the flashcard generator: the password gate (checkPassword and the   *)
(* DOMContentLoaded handler), the file intake, the generation request,    *)
(* the result renderer and the JSON export.                               *)
(*                                                                         *)
(* JavaScript runs every handler to completion: one action of the model   *)
(* is one synchronous run of a handler, from the event (or from the       *)
(* resumption of an await) to the next await or to the handler's end.     *)
(* Requests in flight are kept in the state; the backend's answer to a    *)
(* request is an input of the action that resumes the handler.            *)
(***************************************************************************)
EXTENDS Naturals, Sequences, FiniteSets, Bags, TLC

(***************************************************************************)
(* Bounds of the model.                                                    *)
(***************************************************************************)
\* checkPassword calls awaiting their response at the same time
MaxPwRequests == 2
\* generate-click handlers awaiting the read or the response at the same time
MaxGenerations == 2
\* question/answer pairs in one generation response
MaxCards == 2
\* characters of a question or answer text drawn exhaustively
MaxText == 2

(***************************************************************************)
(* Input domains.                                                          *)
(***************************************************************************)
\* what the user can type into passwordInput
Passwords == {"pw1", "pw2"}

\* files the user can select: File objects with a name, a media type and
\* their bytes (written in base64)
Files ==
    { [name |-> "notes.pdf", type |-> "application/pdf", bytes |-> "JVBERi0="] }

\* fileInput.files[0] of an empty selection (undefined)
NoFile == [name |-> "", type |-> "", bytes |-> ""]

\* characters of question and answer texts
LF == "\n"

\* question/answer pairs a generation response can carry
Cards ==
    { [question |-> <<"<", "b", ">", "&">>, answer |-> <<"y", LF, "n">>],
      [question |-> <<"a", "\"">>, answer |-> <<"1", ">", "0">>] }

\* SeqUpTo(S, n): the sequences over S of length at most n
SeqUpTo(S, n) ==
    UNION { [1..k -> S] : k \in 0..n }

\* the flashcards arrays of successful generation responses
Collections == SeqUpTo(Cards, MaxCards)

\* the characters the renderer treats specially, and some it does not
TextChars == {"<", ">", "&", LF, "b", "/"}

\* texts that spell markup or character references
LiteralTexts ==
    { <<"&", "l", "t", ";">>, <<"&", "a", "m", "p", ";">>,
      <<"<", "b", "r", ">">>, <<"<", "/", "b", ">", "<", "b", ">">>,
      <<"<", "b", ">", LF, "&">> }

\* every short text over TextChars, and the literal ones
Texts == SeqUpTo(TextChars, MaxText) \cup LiteralTexts

\* pairs that carry such a text on one face
TextCards ==
    { [question |-> t, answer |-> <<>>] : t \in Texts } \cup
    { [question |-> <<>>, answer |-> t] : t \in Texts }

\* data.error of a negative generation response: absent, empty or a text
NoError == "<undefined>"
ServerErrors == {NoError, "", "Unsupported file type"}

\* err.message of a rejected fetch or of a response.json() that throws
ExceptionMessages == {"Failed to fetch"}

(***************************************************************************)
(* The state.                                                              *)
(***************************************************************************)
VARIABLES
    sessionAuthenticated,   \* sessionStorage 'authenticated' === 'true'
    passwordOverlayHidden,  \* passwordOverlay carries class hidden
    passwordErrorHidden,    \* passwordError carries class hidden
    passwordErrorText,      \* passwordError.textContent
    passwordInput,          \* passwordInput.value
    passwordFocused,        \* passwordInput.focus() has put the focus there
    pwRequests,             \* bag of enteredPassword of the checkPassword calls in flight
    fileInputFiles,         \* fileInput.files[0], NoFile when empty
    generateBtnDisabled,    \* generateBtn.disabled
    generateBtnText,        \* generateBtn.textContent
    loadingHidden,          \* loading carries class hidden
    resultsHidden,          \* results carries class hidden
    errorHidden,            \* error carries class hidden
    errorText,              \* error.textContent
    resultsCount,           \* resultsCount.textContent
    flashcardsContainer,    \* children of the flashcards container, in order
    currentFlashcards,      \* let currentFlashcards
    generations,            \* generate-click handlers in flight, in issue order
    rendered,               \* history: argument of the last completed showResults
    last                    \* history: the handler step taken last, its inputs
                            \* and what it handed to the browser (a download)

authVars ==
    <<sessionAuthenticated, passwordOverlayHidden, passwordErrorHidden,
      passwordErrorText, passwordInput, passwordFocused, pwRequests>>

intakeVars == <<fileInputFiles, generateBtnDisabled, generateBtnText>>

displayVars ==
    <<loadingHidden, resultsHidden, errorHidden, errorText, resultsCount,
      flashcardsContainer, rendered>>

genVars ==
    <<fileInputFiles, generateBtnDisabled, generateBtnText, loadingHidden,
      resultsHidden, errorHidden, errorText, resultsCount,
      flashcardsContainer, currentFlashcards, generations, rendered>>

vars ==
    <<sessionAuthenticated, passwordOverlayHidden, passwordErrorHidden,
      passwordErrorText, passwordInput, passwordFocused, pwRequests,
      fileInputFiles, generateBtnDisabled, generateBtnText, loadingHidden,
      resultsHidden, errorHidden, errorText, resultsCount,
      flashcardsContainer, currentFlashcards, generations, rendered, last>>

(***************************************************************************)
(* The page as its markup delivers it, before the script runs.  The       *)
(* markup is not part of the script: the overlay blocks the page, the     *)
(* error indicators and the three containers are hidden, the generate     *)
(* action is disabled and carries the default label.                      *)
(***************************************************************************)
InlineRejectionText == "Incorrect password"

DefaultGenerateText == <<"Generate Flashcards">>

PageMarkup ==
    [ passwordOverlayHidden |-> FALSE,
      passwordErrorHidden |-> TRUE,
      passwordErrorText |-> InlineRejectionText,
      passwordInput |-> "",
      generateBtnDisabled |-> TRUE,
      generateBtnText |-> DefaultGenerateText,
      loadingHidden |-> TRUE,
      resultsHidden |-> TRUE,
      errorHidden |-> TRUE,
      errorText |-> <<>>,
      resultsCount |-> <<>> ]

\* an export click that offers no file
NoDownload == [name |-> "", content |-> <<>>]

\* showResults has not completed yet
NotRendered == [done |-> FALSE, cards |-> <<>>]

(***************************************************************************)
(* Access gate.                                                            *)
(***************************************************************************)
VerifyErrorText == "X Error verifying password"

\* faulty variant of Load: the test of the flag inverted
LoadInverted ==
    /\ passwordOverlayHidden' =
          IF ~sessionAuthenticated THEN TRUE ELSE PageMarkup.passwordOverlayHidden
    /\ passwordErrorHidden' = PageMarkup.passwordErrorHidden
    /\ passwordErrorText' = PageMarkup.passwordErrorText
    /\ passwordInput' = PageMarkup.passwordInput
    /\ passwordFocused' = FALSE
    /\ pwRequests' = EmptyBag
    /\ fileInputFiles' = NoFile
    /\ generateBtnDisabled' = PageMarkup.generateBtnDisabled
    /\ generateBtnText' = PageMarkup.generateBtnText
    /\ loadingHidden' = PageMarkup.loadingHidden
    /\ resultsHidden' = PageMarkup.resultsHidden
    /\ errorHidden' = PageMarkup.errorHidden
    /\ errorText' = PageMarkup.errorText
    /\ resultsCount' = PageMarkup.resultsCount
    /\ flashcardsContainer' = <<>>
    /\ currentFlashcards' = <<>>
    /\ generations' = <<>>
    /\ rendered' = NotRendered
    /\ last' = [op |-> "load"]
    /\ UNCHANGED sessionAuthenticated

\* script.js:6-9 (with the declarations of 2-5, 63-72): the page loads, the
\* script runs on a fresh document; sessionStorage outlives the reload,
\* the handlers in flight of the page before do not.
Load ==
    /\ passwordOverlayHidden' =
          IF sessionAuthenticated THEN TRUE ELSE PageMarkup.passwordOverlayHidden
    /\ passwordErrorHidden' = PageMarkup.passwordErrorHidden
    /\ passwordErrorText' = PageMarkup.passwordErrorText
    /\ passwordInput' = PageMarkup.passwordInput
    /\ passwordFocused' = FALSE
    /\ pwRequests' = EmptyBag
    /\ fileInputFiles' = NoFile
    /\ generateBtnDisabled' = PageMarkup.generateBtnDisabled
    /\ generateBtnText' = PageMarkup.generateBtnText
    /\ loadingHidden' = PageMarkup.loadingHidden
    /\ resultsHidden' = PageMarkup.resultsHidden
    /\ errorHidden' = PageMarkup.errorHidden
    /\ errorText' = PageMarkup.errorText
    /\ resultsCount' = PageMarkup.resultsCount
    /\ flashcardsContainer' = <<>>
    /\ currentFlashcards' = <<>>
    /\ generations' = <<>>
    /\ rendered' = NotRendered
    /\ last' = [op |-> "load"]
    /\ UNCHANGED sessionAuthenticated

\* the user edits the password field (no handler of the script runs: the
\* keypress handler of 11-15 acts on Enter only)
TypePassword(p) ==
    /\ passwordInput' = p
    /\ last' = [op |-> "type"]
    /\ UNCHANGED <<sessionAuthenticated, passwordOverlayHidden,
                   passwordErrorHidden, passwordErrorText, passwordFocused,
                   pwRequests>>
    /\ UNCHANGED genVars

\* script.js:16-28: checkPassword up to its first await
SubmitPassword ==
    /\ BagCardinality(pwRequests) < MaxPwRequests
    /\ pwRequests' = pwRequests (+) SetToBag({passwordInput})
    /\ last' = [op |-> "submit"]
    /\ UNCHANGED <<sessionAuthenticated, passwordOverlayHidden,
                   passwordErrorHidden, passwordErrorText, passwordInput,
                   passwordFocused>>
    /\ UNCHANGED genVars

\* faulty variant of Accepted: || in place of &&
AcceptedEither(success, authenticated) ==
    success \/ authenticated

\* script.js:30: data.success && data.authenticated
Accepted(success, authenticated) ==
    success /\ authenticated

\* faulty variant of PwResponse: the rejection branch leaves the input as is
PwResponseKeepsInput(p, success, authenticated) ==
    /\ BagIn(p, pwRequests)
    /\ pwRequests' = pwRequests (-) SetToBag({p})
    /\ IF success /\ authenticated
          THEN /\ sessionAuthenticated' = TRUE
               /\ passwordOverlayHidden' = TRUE
               /\ passwordErrorHidden' = TRUE
               /\ passwordInput' = ""
               /\ UNCHANGED <<passwordErrorText, passwordFocused>>
          ELSE /\ passwordErrorHidden' = FALSE
               /\ passwordFocused' = TRUE
               /\ UNCHANGED <<sessionAuthenticated, passwordOverlayHidden,
                              passwordErrorText, passwordInput>>
    /\ last' = [op |-> "pwResponse", success |-> success,
                authenticated |-> authenticated]
    /\ UNCHANGED genVars

\* script.js:29-48: the response of the request carrying p arrives
PwResponse(p, success, authenticated) ==
    /\ BagIn(p, pwRequests)
    /\ pwRequests' = pwRequests (-) SetToBag({p})
    /\ IF Accepted(success, authenticated)
          THEN /\ sessionAuthenticated' = TRUE
               /\ passwordOverlayHidden' = TRUE
               /\ passwordErrorHidden' = TRUE
               /\ passwordInput' = ""
               /\ UNCHANGED <<passwordErrorText, passwordFocused>>
          ELSE /\ passwordErrorHidden' = FALSE
               /\ passwordInput' = ""
               /\ passwordFocused' = TRUE
               /\ UNCHANGED <<sessionAuthenticated, passwordOverlayHidden,
                              passwordErrorText>>
    /\ last' = [op |-> "pwResponse", success |-> success,
                authenticated |-> authenticated]
    /\ UNCHANGED genVars

\* faulty variant of PwException: the catch branch shows the overlay again
PwExceptionShowsOverlay(p) ==
    /\ BagIn(p, pwRequests)
    /\ pwRequests' = pwRequests (-) SetToBag({p})
    /\ passwordErrorText' = VerifyErrorText
    /\ passwordErrorHidden' = FALSE
    /\ passwordInput' = ""
    /\ passwordOverlayHidden' = FALSE
    /\ last' = [op |-> "pwException"]
    /\ UNCHANGED <<sessionAuthenticated, passwordFocused>>
    /\ UNCHANGED genVars

\* script.js:50-58: fetch rejects or response.json() throws
PwException(p) ==
    /\ BagIn(p, pwRequests)
    /\ pwRequests' = pwRequests (-) SetToBag({p})
    /\ passwordErrorText' = VerifyErrorText
    /\ passwordErrorHidden' = FALSE
    /\ passwordInput' = ""
    /\ last' = [op |-> "pwException"]
    /\ UNCHANGED <<sessionAuthenticated, passwordOverlayHidden, passwordFocused>>
    /\ UNCHANGED genVars

(***************************************************************************)
(* Result renderer.                                                        *)
(***************************************************************************)
\* the text-node serialization of div.innerHTML (script.js:187-189)
SerializeChar(c) ==
    CASE c = "&" -> <<"&", "a", "m", "p", ";">>
      [] c = "<" -> <<"&", "l", "t", ";">>
      [] c = ">" -> <<"&", "g", "t", ";">>
      [] OTHER -> <<c>>

RECURSIVE SerializeText(_)
SerializeText(text) ==
    IF text = <<>> THEN <<>>
    ELSE SerializeChar(Head(text)) \o SerializeText(Tail(text))

\* script.js:189: replace(/\n/g, '<br>')
RECURSIVE ReplaceNewlines(_)
ReplaceNewlines(html) ==
    IF html = <<>> THEN <<>>
    ELSE (IF Head(html) = LF THEN <<"<", "b", "r", ">">> ELSE <<Head(html)>>)
            \o ReplaceNewlines(Tail(html))

\* faulty variant of escapeHtml: the text is not passed through a text node
escapeHtmlNewlinesOnly(text) ==
    ReplaceNewlines(text)

\* script.js:186-190
escapeHtml(text) ==
    ReplaceNewlines(SerializeText(text))

\* nodes the markup parser builds besides text characters
BR == "<br> element"
OtherElement == "other element"
TagStart == {"a", "b", "n", "y", "/"}

StartsWith(s, prefix) ==
    /\ Len(s) >= Len(prefix)
    /\ SubSeq(s, 1, Len(prefix)) = prefix

Drop(s, n) ==
    SubSeq(s, n + 1, Len(s))

\* the position of the first ">" of s, Len(s) when there is none
RECURSIVE TagEnd(_, _)
TagEnd(s, i) ==
    IF i >= Len(s) \/ s[i] = ">" THEN i ELSE TagEnd(s, i + 1)

\* script.js:170: the assignment to innerHTML parses the markup; the child
\* nodes of the <div> that holds a text: characters, <br> elements and
\* whatever other element the markup spells
RECURSIVE ParseHtml(_)
ParseHtml(html) ==
    IF html = <<>> THEN <<>>
    ELSE IF StartsWith(html, <<"<", "b", "r", ">">>)
        THEN <<BR>> \o ParseHtml(Drop(html, 4))
    ELSE IF StartsWith(html, <<"&", "a", "m", "p", ";">>)
        THEN <<"&">> \o ParseHtml(Drop(html, 5))
    ELSE IF StartsWith(html, <<"&", "l", "t", ";">>)
        THEN <<"<">> \o ParseHtml(Drop(html, 4))
    ELSE IF StartsWith(html, <<"&", "g", "t", ";">>)
        THEN <<">">> \o ParseHtml(Drop(html, 4))
    ELSE IF Head(html) = "<" /\ Len(html) >= 2 /\ html[2] \in TagStart
        THEN <<OtherElement>> \o ParseHtml(Drop(html, TagEnd(html, 1)))
    ELSE <<Head(html)>> \o ParseHtml(Tail(html))

\* script.js:166-184; the flip class that the inline onclick of 171 toggles
\* is presentation state of the card alone, which no handler reads: it is
\* not part of the state
createFlashcardElement(card, number) ==
    [ className |-> "flashcard",
      frontNumber |-> <<"Q", number>>,
      front |-> ParseHtml(escapeHtml(card.question)),
      backNumber |-> <<"A", number>>,
      back |-> ParseHtml(escapeHtml(card.answer)) ]

\* script.js:153-156: flashcards.forEach appends one element per card
RECURSIVE AppendCards(_, _, _)
AppendCards(container, flashcards, index) ==
    IF index >= Len(flashcards) THEN container
    ELSE AppendCards(
            Append(container,
                   createFlashcardElement(flashcards[index + 1], index + 1)),
            flashcards, index + 1)

\* script.js:139-143
showLoading ==
    /\ loadingHidden' = FALSE
    /\ resultsHidden' = TRUE
    /\ errorHidden' = TRUE

\* faulty variant of showResults: the container is not emptied first
showResultsAppend(flashcards) ==
    /\ loadingHidden' = TRUE
    /\ resultsHidden' = FALSE
    /\ errorHidden' = TRUE
    /\ resultsCount' = <<"Generated ", Len(flashcards), " flashcards!">>
    /\ flashcardsContainer' = AppendCards(flashcardsContainer, flashcards, 0)
    /\ rendered' = [done |-> TRUE, cards |-> flashcards]

\* script.js:145-157
showResults(flashcards) ==
    /\ loadingHidden' = TRUE
    /\ resultsHidden' = FALSE
    /\ errorHidden' = TRUE
    /\ resultsCount' = <<"Generated ", Len(flashcards), " flashcards!">>
    /\ flashcardsContainer' = AppendCards(<<>>, flashcards, 0)
    /\ rendered' = [done |-> TRUE, cards |-> flashcards]

\* faulty variant of showError: the results container is left as it is
showErrorKeepsResults(message) ==
    /\ loadingHidden' = TRUE
    /\ resultsHidden' = resultsHidden
    /\ errorHidden' = FALSE
    /\ errorText' = <<"X ">> \o message

\* faulty variant of showError: the loading indicator is left as it is
showErrorKeepsLoading(message) ==
    /\ loadingHidden' = loadingHidden
    /\ resultsHidden' = TRUE
    /\ errorHidden' = FALSE
    /\ errorText' = <<"X ">> \o message

\* script.js:159-164
showError(message) ==
    /\ loadingHidden' = TRUE
    /\ resultsHidden' = TRUE
    /\ errorHidden' = FALSE
    /\ errorText' = <<"X ">> \o message

(***************************************************************************)
(* File intake.                                                            *)
(***************************************************************************)
\* faulty variant of SelectFile: an empty selection leaves the action enabled
SelectFileNeverDisables(file) ==
    /\ fileInputFiles' = file
    /\ IF file # NoFile
          THEN /\ generateBtnDisabled' = FALSE
               /\ generateBtnText' = <<"Generate from ", file.name>>
          ELSE /\ generateBtnText' = <<"Generate Flashcards">>
               /\ UNCHANGED generateBtnDisabled
    /\ last' = [op |-> "select"]
    /\ UNCHANGED <<displayVars, currentFlashcards, generations>>
    /\ UNCHANGED authVars

\* script.js:74-83: the selection changes to one whose first entry is file
\* (NoFile: an empty selection)
SelectFile(file) ==
    /\ fileInputFiles' = file
    /\ IF file # NoFile
          THEN /\ generateBtnDisabled' = FALSE
               /\ generateBtnText' = <<"Generate from ", file.name>>
          ELSE /\ generateBtnDisabled' = TRUE
               /\ generateBtnText' = <<"Generate Flashcards">>
    /\ last' = [op |-> "select"]
    /\ UNCHANGED <<displayVars, currentFlashcards, generations>>
    /\ UNCHANGED authVars

\* script.js:130-137 and 100: reader.result is the data URL of the file;
\* split(',')[1] keeps what follows its first comma
fileToBase64(file) ==
    <<"data:", file.type, ";base64", ",", file.bytes>>

RECURSIVE IndexOfComma(_, _)
IndexOfComma(s, i) ==
    IF i > Len(s) THEN 0
    ELSE IF s[i] = "," THEN i ELSE IndexOfComma(s, i + 1)

SplitCommaSecond(s) ==
    LET c == IndexOfComma(s, 1)
        rest == SubSeq(s, c + 1, Len(s))
        d == IndexOfComma(rest, 1)
    IN  IF d = 0 THEN rest ELSE SubSeq(rest, 1, d - 1)

(***************************************************************************)
(* Generation request.                                                     *)
(***************************************************************************)
Remove(s, i) ==
    SubSeq(s, 1, i - 1) \o SubSeq(s, i + 1, Len(s))

NoBody == [file_content |-> <<>>, file_type |-> ""]

\* the handler runs already started are no longer the most recently issued
Superseded(gens) ==
    [k \in 1..Len(gens) |-> [gens[k] EXCEPT !.newest = FALSE]]

\* faulty variant of GenerateClick: the check of the selection is missing
GenerateClickNoGuard ==
    /\ Len(generations) < MaxGenerations
    /\ showLoading
    /\ generations' = Append(Superseded(generations),
            [pc |-> "encoding", file |-> fileInputFiles,
             body |-> NoBody, newest |-> TRUE])
    /\ UNCHANGED <<intakeVars, errorText, resultsCount,
                   flashcardsContainer, rendered, currentFlashcards>>
    /\ last' = [op |-> "generate"]
    /\ UNCHANGED authVars

\* faulty variant of GenerateClick: the handler returns when the session
\* flag is not set
GenerateClickGated ==
    /\ Len(generations) < MaxGenerations
    /\ IF fileInputFiles = NoFile \/ ~sessionAuthenticated
          THEN UNCHANGED genVars
          ELSE /\ showLoading
               /\ generations' = Append(Superseded(generations),
                       [pc |-> "encoding", file |-> fileInputFiles,
                        body |-> NoBody, newest |-> TRUE])
               /\ UNCHANGED <<intakeVars, errorText, resultsCount,
                              flashcardsContainer, rendered,
                              currentFlashcards>>
    /\ last' = [op |-> "generate"]
    /\ UNCHANGED authVars

\* faulty variant of GenerateClick: showLoading is not called
GenerateClickNoLoading ==
    /\ Len(generations) < MaxGenerations
    /\ IF fileInputFiles = NoFile
          THEN UNCHANGED genVars
          ELSE /\ generations' = Append(Superseded(generations),
                       [pc |-> "encoding", file |-> fileInputFiles,
                        body |-> NoBody, newest |-> TRUE])
               /\ UNCHANGED <<intakeVars, displayVars, currentFlashcards>>
    /\ last' = [op |-> "generate"]
    /\ UNCHANGED authVars

\* script.js:85-92: the click handler up to its first await
GenerateClick ==
    /\ Len(generations) < MaxGenerations
    /\ IF fileInputFiles = NoFile
          THEN UNCHANGED genVars
          ELSE /\ showLoading
               /\ generations' = Append(Superseded(generations),
                       [pc |-> "encoding", file |-> fileInputFiles,
                        body |-> NoBody, newest |-> TRUE])
               /\ UNCHANGED <<intakeVars, errorText, resultsCount,
                              flashcardsContainer, rendered,
                              currentFlashcards>>
    /\ last' = [op |-> "generate"]
    /\ UNCHANGED authVars

\* script.js:92-103: the read of generation i completes, the request is sent
EncodeDone(i) ==
    /\ i \in 1..Len(generations)
    /\ generations[i].pc = "encoding"
    /\ LET file == generations[i].file
           base64File == fileToBase64(file)
       IN  generations' = [generations EXCEPT ![i] =
               [pc |-> "fetching", file |-> file,
                body |-> [file_content |-> SplitCommaSecond(base64File),
                          file_type |-> file.type],
                newest |-> generations[i].newest]]
    /\ last' = [op |-> "encoded"]
    /\ UNCHANGED <<intakeVars, displayVars, currentFlashcards>>
    /\ UNCHANGED authVars

FailurePrefix == "Failed to generate flashcards: "

\* script.js:135: what reader.onerror hands to reject: the error event of
\* the reader, a ProgressEvent.  The description of the failure is the
\* message of reader.error; the event itself has no message property.
ReadErrorEvent ==
    [ type |-> "error",
      target |-> [error |-> [name |-> "NotReadableError",
                             message |-> "The file could not be read"]] ]

\* script.js:114: err.message, as string concatenation renders it
MessageOf(err) ==
    IF "message" \in DOMAIN err THEN err.message ELSE "undefined"

\* faulty variant of EncodeFailed: the handler reports the error and goes on
\* to send the request
EncodeFailedStillRequests(i) ==
    /\ i \in 1..Len(generations)
    /\ generations[i].pc = "encoding"
    /\ generations' = [generations EXCEPT ![i].pc = "fetching"]
    /\ showError(<<FailurePrefix, MessageOf(ReadErrorEvent)>>)
    /\ last' = [op |-> "encodeFailed", err |-> ReadErrorEvent,
                newest |-> generations[i].newest]
    /\ UNCHANGED <<intakeVars, resultsCount, flashcardsContainer, rendered,
                   currentFlashcards>>
    /\ UNCHANGED authVars

\* script.js:135 and 113-115: the read of generation i fails, the promise
\* of fileToBase64 rejects and the catch of the click handler runs
EncodeFailed(i) ==
    /\ i \in 1..Len(generations)
    /\ generations[i].pc = "encoding"
    /\ generations' = Remove(generations, i)
    /\ showError(<<FailurePrefix, MessageOf(ReadErrorEvent)>>)
    /\ last' = [op |-> "encodeFailed", err |-> ReadErrorEvent,
                newest |-> generations[i].newest]
    /\ UNCHANGED <<intakeVars, resultsCount, flashcardsContainer, rendered,
                   currentFlashcards>>
    /\ UNCHANGED authVars

\* script.js:111: data.error || 'Failed to generate flashcards'
ErrorOrFallback(error) ==
    IF error = NoError \/ error = "" THEN "Failed to generate flashcards"
    ELSE error

\* faulty variant of GenResponse: a response to a click that is no longer
\* the most recently issued one is discarded
GenResponseNewestOnly(i, success, flashcards, error) ==
    /\ i \in 1..Len(generations)
    /\ generations[i].pc = "fetching"
    /\ generations' = Remove(generations, i)
    /\ IF ~generations[i].newest
          THEN UNCHANGED <<displayVars, currentFlashcards>>
          ELSE IF success
                  THEN /\ currentFlashcards' = flashcards
                       /\ showResults(flashcards)
                       /\ UNCHANGED errorText
                  ELSE /\ showError(<<ErrorOrFallback(error)>>)
                       /\ UNCHANGED <<currentFlashcards, resultsCount,
                                      flashcardsContainer, rendered>>
    /\ last' = [op |-> "genResponse", success |-> success,
                flashcards |-> flashcards, error |-> error,
                newest |-> generations[i].newest]
    /\ UNCHANGED intakeVars
    /\ UNCHANGED authVars

\* faulty variant of GenResponse: the success path renders the cards
\* without storing them in currentFlashcards
GenResponseNoStore(i, success, flashcards, error) ==
    /\ i \in 1..Len(generations)
    /\ generations[i].pc = "fetching"
    /\ generations' = Remove(generations, i)
    /\ IF success
          THEN /\ showResults(flashcards)
               /\ UNCHANGED <<currentFlashcards, errorText>>
          ELSE /\ showError(<<ErrorOrFallback(error)>>)
               /\ UNCHANGED <<currentFlashcards, resultsCount,
                              flashcardsContainer, rendered>>
    /\ last' = [op |-> "genResponse", success |-> success,
                flashcards |-> flashcards, error |-> error,
                newest |-> generations[i].newest]
    /\ UNCHANGED intakeVars
    /\ UNCHANGED authVars

\* script.js:105-112: the response of generation i arrives
GenResponse(i, success, flashcards, error) ==
    /\ i \in 1..Len(generations)
    /\ generations[i].pc = "fetching"
    /\ generations' = Remove(generations, i)
    /\ IF success
          THEN /\ currentFlashcards' = flashcards
               /\ showResults(flashcards)
               /\ UNCHANGED errorText
          ELSE /\ showError(<<ErrorOrFallback(error)>>)
               /\ UNCHANGED <<currentFlashcards, resultsCount,
                              flashcardsContainer, rendered>>
    /\ last' = [op |-> "genResponse", success |-> success,
                flashcards |-> flashcards, error |-> error,
                newest |-> generations[i].newest]
    /\ UNCHANGED intakeVars
    /\ UNCHANGED authVars

\* faulty variant of GenException: the catch branch also disables the action
GenExceptionDisablesAction(i, message) ==
    /\ i \in 1..Len(generations)
    /\ generations[i].pc = "fetching"
    /\ generations' = Remove(generations, i)
    /\ showError(<<FailurePrefix, MessageOf([name |-> "TypeError",
                                             message |-> message])>>)
    /\ generateBtnDisabled' = TRUE
    /\ last' = [op |-> "genException", message |-> message,
                newest |-> generations[i].newest]
    /\ UNCHANGED <<fileInputFiles, generateBtnText, resultsCount,
                   flashcardsContainer, rendered, currentFlashcards>>
    /\ UNCHANGED authVars

\* script.js:113-115: fetch rejects or response.json() throws an Error
\* carrying message
GenException(i, message) ==
    /\ i \in 1..Len(generations)
    /\ generations[i].pc = "fetching"
    /\ generations' = Remove(generations, i)
    /\ showError(<<FailurePrefix, MessageOf([name |-> "TypeError",
                                             message |-> message])>>)
    /\ last' = [op |-> "genException", message |-> message,
                newest |-> generations[i].newest]
    /\ UNCHANGED <<intakeVars, resultsCount, flashcardsContainer, rendered,
                   currentFlashcards>>
    /\ UNCHANGED authVars

(***************************************************************************)
(* Export.                                                                 *)
(***************************************************************************)
Quote == "\""
Backslash == "\\"

\* JSON.stringify of one character of a string
JsonChar(c) ==
    CASE c = Quote -> <<Backslash, Quote>>
      [] c = Backslash -> <<Backslash, Backslash>>
      [] c = LF -> <<Backslash, "n">>
      [] OTHER -> <<c>>

RECURSIVE JsonChars(_)
JsonChars(text) ==
    IF text = <<>> THEN <<>>
    ELSE JsonChar(Head(text)) \o JsonChars(Tail(text))

JsonString(text) ==
    <<Quote>> \o JsonChars(text) \o <<Quote>>

JsonCard(card) ==
    <<"\n  ", "{", "\n    ">> \o JsonString(<<"question">>) \o <<": ">>
        \o JsonString(card.question) \o <<",", "\n    ">>
        \o JsonString(<<"answer">>) \o <<": ">> \o JsonString(card.answer)
        \o <<"\n  ", "}">>

RECURSIVE JsonCards(_)
JsonCards(cards) ==
    IF cards = <<>> THEN <<>>
    ELSE JsonCard(Head(cards))
            \o (IF Len(cards) > 1 THEN <<",">> ELSE <<"\n">>)
            \o JsonCards(Tail(cards))

\* script.js:121: JSON.stringify(currentFlashcards, null, 2)
JsonStringify(cards) ==
    <<"[">> \o JsonCards(cards) \o <<"]">>

\* faulty variant of DownloadClick: no test for an empty collection
DownloadClickUnguarded ==
    /\ LET dataStr == JsonStringify(currentFlashcards)
       IN  last' = [op |-> "export",
                    download |-> [name |-> "flashcards.json",
                                  content |-> dataStr]]
    /\ UNCHANGED <<intakeVars, displayVars, currentFlashcards, generations>>
    /\ UNCHANGED authVars

\* script.js:118-128
DownloadClick ==
    /\ IF Len(currentFlashcards) = 0
          THEN last' = [op |-> "export", download |-> NoDownload]
          ELSE LET dataStr == JsonStringify(currentFlashcards)
               IN  last' = [op |-> "export",
                            download |-> [name |-> "flashcards.json",
                                          content |-> dataStr]]
    /\ UNCHANGED <<intakeVars, displayVars, currentFlashcards, generations>>
    /\ UNCHANGED authVars

(***************************************************************************)
(* Specification.                                                          *)
(***************************************************************************)
\* the first load of the page in a browser session, which may or may not
\* hold the flag of an earlier authentication
Init ==
    /\ sessionAuthenticated \in BOOLEAN
    /\ passwordOverlayHidden =
          IF sessionAuthenticated THEN TRUE ELSE PageMarkup.passwordOverlayHidden
    /\ passwordErrorHidden = PageMarkup.passwordErrorHidden
    /\ passwordErrorText = PageMarkup.passwordErrorText
    /\ passwordInput = PageMarkup.passwordInput
    /\ passwordFocused = FALSE
    /\ pwRequests = EmptyBag
    /\ fileInputFiles = NoFile
    /\ generateBtnDisabled = PageMarkup.generateBtnDisabled
    /\ generateBtnText = PageMarkup.generateBtnText
    /\ loadingHidden = PageMarkup.loadingHidden
    /\ resultsHidden = PageMarkup.resultsHidden
    /\ errorHidden = PageMarkup.errorHidden
    /\ errorText = PageMarkup.errorText
    /\ resultsCount = PageMarkup.resultsCount
    /\ flashcardsContainer = <<>>
    /\ currentFlashcards = <<>>
    /\ generations = <<>>
    /\ rendered = NotRendered
    /\ last = [op |-> "load"]

\* the access gate on its own: page loads and password handlers
NextAuth ==
    \/ Load
    \/ \E p \in Passwords \cup {""} : TypePassword(p)
    \/ SubmitPassword
    \/ \E p \in Passwords \cup {""}, s \in BOOLEAN, a \in BOOLEAN :
          PwResponse(p, s, a)
    \/ \E p \in Passwords \cup {""} : PwException(p)

\* intake, generation, rendering and export on their own
NextGen ==
    \/ Load
    \/ \E file \in Files \cup {NoFile} : SelectFile(file)
    \/ GenerateClick
    \/ \E i \in 1..MaxGenerations : EncodeDone(i)
    \/ \E i \in 1..MaxGenerations : EncodeFailed(i)
    \/ \E i \in 1..MaxGenerations, c \in Collections :
          GenResponse(i, TRUE, c, NoError)
    \/ \E i \in 1..MaxGenerations, e \in ServerErrors :
          GenResponse(i, FALSE, <<>>, e)
    \/ \E i \in 1..MaxGenerations, m \in ExceptionMessages :
          GenException(i, m)
    \/ DownloadClick

Next ==
    \/ NextAuth
    \/ NextGen

\* every handler of the page
Spec == Init /\ [][Next]_vars

\* the handlers of the access gate: none of the others reads or writes a
\* variable of authVars, and none of these a variable of genVars
SpecAuth == Init /\ [][NextAuth]_vars

\* the handlers of intake, generation, rendering and export
SpecGen == Init /\ [][NextGen]_vars

\* a page loaded without the flag
InitLocked ==
    Init /\ ~sessionAuthenticated

\* attempts made one after the other on a page loaded without the flag:
\* password submissions and generations, each started when the one before
\* it has ended, with every outcome
NextRetry ==
    \/ \E p \in Passwords : TypePassword(p)
    \/ pwRequests = EmptyBag /\ SubmitPassword
    \/ \E p \in Passwords \cup {""}, s \in BOOLEAN, a \in BOOLEAN :
          PwResponse(p, s, a)
    \/ \E p \in Passwords \cup {""} : PwException(p)
    \/ \E file \in Files : SelectFile(file)
    \/ generations = <<>> /\ GenerateClick
    \/ EncodeDone(1)
    \/ EncodeFailed(1)
    \/ \E card \in Cards : GenResponse(1, TRUE, <<card>>, NoError)
    \/ \E e \in ServerErrors : GenResponse(1, FALSE, <<>>, e)
    \/ \E m \in ExceptionMessages : GenException(1, m)

SpecRetry == InitLocked /\ [][NextRetry]_vars

\* rendering on its own: one generation at a time, each answered with a
\* pair drawn from TextCards
NextRender ==
    \/ \E file \in Files : SelectFile(file)
    \/ generations = <<>> /\ GenerateClick
    \/ EncodeDone(1)
    \/ \E card \in TextCards : GenResponse(1, TRUE, <<card>>, NoError)

SpecRender == Init /\ [][NextRender]_vars

(***************************************************************************)
(* Reading back an exported file: JSON.parse of the text JsonStringify     *)
(* writes.                                                                 *)
(***************************************************************************)
JsonSpace == {"\n", "\n  ", "\n    "}

RECURSIVE SkipSpace(_)
SkipSpace(s) ==
    IF s # <<>> /\ Head(s) \in JsonSpace THEN SkipSpace(Tail(s)) ELSE s

\* the characters of a string literal up to its closing quote, and the rest
RECURSIVE ParseJsonChars(_)
ParseJsonChars(s) ==
    IF s = <<>> THEN [value |-> <<>>, rest |-> <<>>]
    ELSE IF Head(s) = Quote THEN [value |-> <<>>, rest |-> Tail(s)]
    ELSE IF Head(s) = Backslash /\ Len(s) >= 2
        THEN LET r == ParseJsonChars(Drop(s, 2))
                 c == IF s[2] = "n" THEN LF ELSE s[2]
             IN  [value |-> <<c>> \o r.value, rest |-> r.rest]
    ELSE LET r == ParseJsonChars(Tail(s))
         IN  [value |-> <<Head(s)>> \o r.value, rest |-> r.rest]

\* a string literal at the head of s (after white space)
ParseJsonString(s) ==
    ParseJsonChars(Tail(SkipSpace(s)))

\* skips white space and the one token expected next
Expect(s, token) ==
    LET t == SkipSpace(s)
    IN  IF t # <<>> /\ Head(t) = token THEN Tail(t) ELSE <<"malformed">>

\* an object with the two members question and answer
ParseJsonCard(s) ==
    LET k1 == ParseJsonString(Expect(s, "{"))
        v1 == ParseJsonString(Expect(k1.rest, ": "))
        k2 == ParseJsonString(Expect(v1.rest, ","))
        v2 == ParseJsonString(Expect(k2.rest, ": "))
    IN  [ value |-> IF k1.value = <<"question">> /\ k2.value = <<"answer">>
                       THEN [question |-> v1.value, answer |-> v2.value]
                       ELSE [question |-> <<"malformed">>,
                             answer |-> <<"malformed">>],
          rest |-> Expect(v2.rest, "}") ]

RECURSIVE ParseJsonCards(_)
ParseJsonCards(s) ==
    LET t == SkipSpace(s)
    IN  IF t = <<>> \/ Head(t) = "]" THEN <<>>
        ELSE IF Head(t) = "," THEN ParseJsonCards(Tail(t))
        ELSE LET c == ParseJsonCard(t)
             IN  <<c.value>> \o ParseJsonCards(c.rest)

JsonParse(content) ==
    ParseJsonCards(Expect(content, "["))

(***************************************************************************)
(* The claims.                                                             *)
(***************************************************************************)

\* C1: the collection an export click serializes is the collection that
\* showResults rendered last: in every state currentFlashcards is the
\* argument of the last completed showResults (empty before the first), and
\* the file an export click has just offered is named flashcards.json and
\* parses to that collection; overlapping generations and later failures
\* do not break this.
C1_ExportMatchesLastRendered ==
    /\ currentFlashcards = rendered.cards
    /\ (last.op = "export" /\ last.download # NoDownload) =>
          /\ rendered.done
          /\ last.download.name = "flashcards.json"
          /\ JsonParse(last.download.content) = rendered.cards

\* C1 witness: an export click has offered a file of MaxCards pairs after a
\* later generation has failed
C1_Witness ==
    /\ last.op = "export"
    /\ last.download # NoDownload
    /\ Len(JsonParse(last.download.content)) = MaxCards
    /\ ~errorHidden

\* C2: a selection event enables the generate action exactly when it
\* carries a file (and sets the label: with the name of the file, or the
\* default), and no generate click, encoding step, generation response,
\* export or password step changes the enabled state.
C2_EnabledIffFileSelected ==
    [][ /\ last'.op = "select" =>
              /\ generateBtnDisabled' = (fileInputFiles' = NoFile)
              /\ generateBtnText' =
                    IF fileInputFiles' = NoFile THEN <<"Generate Flashcards">>
                    ELSE <<"Generate from ", fileInputFiles'.name>>
        /\ last'.op \notin {"select", "load"} =>
              UNCHANGED <<generateBtnDisabled, generateBtnText>> ]_vars

\* C2 witness: the selection has been cleared after a generation from a
\* selected file was rendered, and the action is disabled again
C2_Witness ==
    /\ last.op = "select"
    /\ fileInputFiles = NoFile
    /\ generateBtnDisabled
    /\ rendered.done

\* a step that handles a verify_password response, by its verdict
RejectedResponse(l) ==
    l.op = "pwResponse" /\ ~(l.success /\ l.authenticated)

AcceptedResponse(l) ==
    l.op = "pwResponse" /\ l.success /\ l.authenticated

\* C3: the flag becomes true only in a step that handles a response with
\* success and authenticated both true, and such a step sets the flag, hides
\* the overlay, hides the error indicator and clears the input; a response
\* with either field false and a request exception leave the flag as it was.
C3_FlagSetOnlyByAcceptedResponse ==
    [][ /\ (sessionAuthenticated' /\ ~sessionAuthenticated) =>
              AcceptedResponse(last')
        /\ AcceptedResponse(last') =>
              /\ sessionAuthenticated'
              /\ passwordOverlayHidden'
              /\ passwordErrorHidden'
              /\ passwordInput' = ""
        /\ (RejectedResponse(last') \/ last'.op = "pwException") =>
              UNCHANGED sessionAuthenticated ]_vars

\* C3 witness: an accepted response has just been handled
C3_Witness ==
    /\ AcceptedResponse(last)
    /\ sessionAuthenticated
    /\ passwordOverlayHidden
    /\ passwordErrorHidden
    /\ passwordInput = ""

\* C4 as stated: after a rejected response is handled the overlay is
\* visible, the error indicator is shown and the input is empty.
C4_RejectionLeavesOverlayVisible ==
    RejectedResponse(last) =>
        /\ ~passwordOverlayHidden
        /\ ~passwordErrorHidden
        /\ passwordInput = ""

\* C4 amended: the step that handles a rejected response shows the error
\* indicator, empties the input and leaves the overlay as it was (so the
\* overlay is visible afterwards unless it was hidden before).
C4_RejectionShowsErrorKeepsOverlay ==
    [][ RejectedResponse(last') =>
            /\ ~passwordErrorHidden'
            /\ passwordInput' = ""
            /\ UNCHANGED passwordOverlayHidden ]_vars

\* C4 witness: a rejected response has been handled while another request
\* is still in flight and the user has not been let in
C4_Witness ==
    /\ RejectedResponse(last)
    /\ ~passwordOverlayHidden
    /\ ~passwordErrorHidden
    /\ passwordInput = ""
    /\ pwRequests # EmptyBag

\* C5: no step clears the flag once it is true; a page load that runs with
\* the flag true ends with the overlay hidden and no password request
\* issued; a load that follows a load changes nothing.
C5_FlagPersistsAndLoadHidesOverlay ==
    [][ /\ sessionAuthenticated => sessionAuthenticated'
        /\ (last'.op = "load" /\ sessionAuthenticated) =>
              /\ passwordOverlayHidden'
              /\ pwRequests' = EmptyBag
        /\ (last.op = "load" /\ last'.op = "load") => UNCHANGED vars ]_vars

\* C5 witness: the page has been loaded again in an authenticated session
C5_Witness ==
    /\ last.op = "load"
    /\ sessionAuthenticated
    /\ passwordOverlayHidden
    /\ pwRequests = EmptyBag

\* C6 as stated: whatever the earlier attempts were, a rejected response
\* displays the inline rejection message and a request exception displays
\* the 'error verifying password' message, and the two differ.
C6_DistinctMessages ==
    /\ InlineRejectionText # VerifyErrorText
    /\ RejectedResponse(last) =>
          /\ ~passwordErrorHidden
          /\ passwordErrorText = InlineRejectionText
    /\ last.op = "pwException" =>
          /\ ~passwordErrorHidden
          /\ passwordErrorText = VerifyErrorText

\* C7: at the end of the synchronous step of a generate click with a file
\* present the loading indicator is shown and the results and error
\* containers are hidden, while the generation the click started is still
\* at its encoding: its request has not been issued.
C7_LoadingShownInClickStep ==
    (last.op = "generate" /\ fileInputFiles # NoFile) =>
        /\ ~loadingHidden
        /\ resultsHidden
        /\ errorHidden
        /\ generations # <<>>
        /\ generations[Len(generations)].pc = "encoding"
        /\ generations[Len(generations)].body = NoBody

\* C7 witness: a click with a file present, made after results were
\* rendered, while an earlier generation has its request in flight
C7_Witness ==
    /\ last.op = "generate"
    /\ fileInputFiles # NoFile
    /\ ~loadingHidden
    /\ rendered.done
    /\ Len(generations) = 2
    /\ generations[1].pc = "fetching"

\* what a card shows of a text: its characters, a line break for each newline
Shown(text) ==
    [i \in 1..Len(text) |-> IF text[i] = LF THEN BR ELSE text[i]]

\* C8: after a successful response carrying N pairs is handled the container
\* holds exactly N elements, the i-th labelled Q<i>/A<i> and showing the
\* i-th question on the front and the i-th answer on the back, nothing of an
\* earlier render; the count reports N; the results container is shown and
\* the loading and error containers are hidden.
C8_RenderShowsExactlyTheResponse ==
    (last.op = "genResponse" /\ last.success) =>
        LET cards == last.flashcards
            N == Len(cards)
        IN  /\ Len(flashcardsContainer) = N
            /\ \A i \in 1..N :
                  /\ flashcardsContainer[i].frontNumber = <<"Q", i>>
                  /\ flashcardsContainer[i].backNumber = <<"A", i>>
                  /\ flashcardsContainer[i].front = Shown(cards[i].question)
                  /\ flashcardsContainer[i].back = Shown(cards[i].answer)
            /\ resultsCount = <<"Generated ", N, " flashcards!">>
            /\ ~resultsHidden
            /\ loadingHidden
            /\ errorHidden

\* C8 witness: a response of MaxCards different pairs has been rendered
C8_Witness ==
    /\ last.op = "genResponse"
    /\ last.success
    /\ Len(last.flashcards) = MaxCards
    /\ last.flashcards[1] # last.flashcards[2]
    /\ Len(flashcardsContainer) = MaxCards
    /\ ~resultsHidden

\* the description of the failure an error event of a reader reports
DescriptionOf(event) ==
    event.target.error.message

\* C9 as stated: a negative response displays the server's error text, or the
\* fallback when none is provided; a transport or encoding exception displays
\* the fixed prefix followed by the description of the exception; in both
\* cases the loading and results containers are hidden and the collection is
\* the one rendered last.
C9_ErrorTexts ==
    /\ (last.op = "genResponse" /\ ~last.success) =>
          /\ errorText =
                <<"X ", IF last.error \in {NoError, ""}
                           THEN "Failed to generate flashcards"
                           ELSE last.error>>
          /\ ~errorHidden /\ loadingHidden /\ resultsHidden
          /\ currentFlashcards = rendered.cards
    /\ last.op = "genException" =>
          /\ errorText = <<"X ", FailurePrefix, last.message>>
          /\ ~errorHidden /\ loadingHidden /\ resultsHidden
          /\ currentFlashcards = rendered.cards
    /\ last.op = "encodeFailed" =>
          /\ errorText = <<"X ", FailurePrefix, DescriptionOf(last.err)>>
          /\ ~errorHidden /\ loadingHidden /\ resultsHidden
          /\ currentFlashcards = rendered.cards

\* C10: an export click while the collection is empty offers no file and
\* changes nothing; an export click in any state starts no request and
\* leaves the collection and the visibility of the loading, results and
\* error containers as they were.
C10_ExportFrame ==
    [][ last'.op = "export" =>
            /\ UNCHANGED <<pwRequests, generations, currentFlashcards,
                           loadingHidden, resultsHidden, errorHidden>>
            /\ Len(currentFlashcards) = 0 =>
                  /\ last'.download = NoDownload
                  /\ UNCHANGED <<authVars, genVars>> ]_vars

\* C10 witness: an export click that offered nothing after a successful
\* generation of zero pairs, while a generation is in flight
C10_Witness ==
    /\ last.op = "export"
    /\ last.download = NoDownload
    /\ rendered.done
    /\ currentFlashcards = <<>>
    /\ generations # <<>>

\* the step that ends a generate-click handler: a response, an exception of
\* the request, or a failed read of the file
Completion(l) ==
    l.op \in {"genResponse", "genException", "encodeFailed"}

\* C12: a generate click made while earlier handler runs are in flight leaves
\* every one of them in flight, a completion removes only its own run, and
\* each completion decides the display by its own outcome alone: a success
\* replaces the collection and the rendered cards and shows the results, a
\* failure or exception shows its error and leaves the collection, whether
\* or not the completing run was the one issued last.  So the response that
\* resolves last decides the final display.
C12_LastResolvedResponseDecides ==
    [][/\ (last'.op = "generate" /\ fileInputFiles # NoFile) =>
              /\ Len(generations') = Len(generations) + 1
              /\ \A k \in 1..Len(generations) :
                     /\ generations'[k].pc = generations[k].pc
                     /\ generations'[k].file = generations[k].file
                     /\ generations'[k].body = generations[k].body
       /\ Completion(last') =>
              /\ \E i \in 1..Len(generations) :
                     generations' = Remove(generations, i)
              /\ loadingHidden'
       /\ (last'.op = "genResponse" /\ last'.success) =>
              /\ currentFlashcards' = last'.flashcards
              /\ rendered' = [done |-> TRUE, cards |-> last'.flashcards]
              /\ ~resultsHidden'
              /\ errorHidden'
       /\ (last'.op = "genResponse" /\ ~last'.success) =>
              /\ ~errorHidden'
              /\ resultsHidden'
              /\ errorText' = <<"X ", ErrorOrFallback(last'.error)>>
              /\ UNCHANGED <<currentFlashcards, rendered>>
       /\ last'.op = "genException" =>
              /\ ~errorHidden'
              /\ resultsHidden'
              /\ errorText' = <<"X ", FailurePrefix, last'.message>>
              /\ UNCHANGED <<currentFlashcards, rendered>>
      ]_vars

\* two runs overlapped, the one issued last completed first, and the success
\* of the earlier-issued run, arriving last, is what the page shows
C12_Witness ==
    /\ last.op = "genResponse"
    /\ last.success
    /\ ~last.newest
    /\ generations = <<>>
    /\ last.flashcards # <<>>
    /\ currentFlashcards = last.flashcards
    /\ rendered = [done |-> TRUE, cards |-> last.flashcards]
    /\ ~resultsHidden

\* C13 (as stated): once no handler run is in flight, the completion that
\* decided the display belongs to the run issued last
C13_DisplayFromLastIssued ==
    (generations = <<>> /\ Completion(last)) => last.newest

\* the "<" of a markup text that do not open a <br>
StrayTagOpeners(html) ==
    { p \in 1..Len(html) :
        /\ html[p] = "<"
        /\ ~StartsWith(Drop(html, p - 1), <<"<", "b", "r", ">">>) }

\* the face of a card shows text literally
Literal(face, text) ==
    /\ StrayTagOpeners(escapeHtml(text)) = {}
    /\ Len(escapeHtml(text)) >= Len(text)
    /\ face = Shown(text)
    /\ \A p \in 1..Len(face) : face[p] # OtherElement

\* C14: on every rendered card each face is, node for node, the characters
\* of its text with a line break element in place of each newline: the
\* markup escapeHtml hands to innerHTML has no "<" but those of the <br> it
\* wrote itself, and parsing it builds no other element, whatever markup or
\* character reference the text spells.
C14_RenderedTextIsLiteral ==
    rendered.done =>
        /\ Len(flashcardsContainer) = Len(rendered.cards)
        /\ \A i \in 1..Len(rendered.cards) :
              /\ Literal(flashcardsContainer[i].front,
                         rendered.cards[i].question)
              /\ Literal(flashcardsContainer[i].back,
                         rendered.cards[i].answer)

\* a text that spells a tag, a newline and an ampersand is on the page as
\* those characters and one line break
C14_Witness ==
    /\ rendered.done
    /\ Len(rendered.cards) = 1
    /\ rendered.cards[1].question = <<"<", "b", ">", LF, "&">>
    /\ flashcardsContainer[1].front = <<"<", "b", ">", BR, "&">>
    /\ ~resultsHidden

\* the handler runs whose request has been issued
Requested(gens) ==
    { k \in 1..Len(gens) : gens[k].pc = "fetching" }

\* C15: a handler run starts at the encoding step with no request; its
\* request, carrying the encoded file, exists exactly when its encoding has
\* completed; a response or an exception of the request ends only a run
\* whose request was issued.  A failed encoding ends its run without a
\* request: no run moves to the request step, the error container shows a
\* message that starts with the fixed prefix, the loading and results
\* containers are hidden and the collection is unchanged.
C15_EncodeRequestResponseInOrder ==
    [][/\ \A k \in 1..Len(generations') :
              (generations'[k].pc = "fetching")
                  <=> (generations'[k].body # NoBody)
       /\ (last'.op = "generate" /\ fileInputFiles # NoFile) =>
              /\ generations'[Len(generations')].pc = "encoding"
              /\ Cardinality(Requested(generations'))
                     = Cardinality(Requested(generations))
       /\ last'.op = "encoded" =>
              \E i \in 1..Len(generations) :
                  /\ generations[i].pc = "encoding"
                  /\ generations'[i].pc = "fetching"
                  /\ generations'[i].body.file_type = generations[i].file.type
                  /\ Requested(generations')
                         = Requested(generations) \cup {i}
       /\ last'.op \in {"genResponse", "genException"} =>
              \E i \in 1..Len(generations) :
                  /\ generations[i].pc = "fetching"
                  /\ generations' = Remove(generations, i)
       /\ last'.op = "encodeFailed" =>
              /\ \E i \in 1..Len(generations) :
                     /\ generations[i].pc = "encoding"
                     /\ generations' = Remove(generations, i)
              /\ Cardinality(Requested(generations'))
                     = Cardinality(Requested(generations))
              /\ ~errorHidden'
              /\ SubSeq(errorText', 1, 2) = <<"X ", FailurePrefix>>
              /\ loadingHidden'
              /\ resultsHidden'
              /\ UNCHANGED <<currentFlashcards, rendered>>
      ]_vars

\* the read of a file has failed after an earlier generation succeeded: the
\* error is shown, the earlier collection is still held, and the failed run
\* has left no request behind
C15_Witness ==
    /\ last.op = "encodeFailed"
    /\ ~errorHidden
    /\ loadingHidden
    /\ errorText[2] = FailurePrefix
    /\ currentFlashcards # <<>>
    /\ generations = <<>>

\* C16: a generate click while no file is selected changes nothing: the
\* loading indicator is not shown, no handler run (encoding or request) is
\* started, and the three containers, the rendered cards, the button and
\* the collection are as they were.
C16_ClickWithoutFileIsNoOp ==
    [][(last'.op = "generate" /\ fileInputFiles = NoFile) =>
           /\ UNCHANGED genVars
           /\ UNCHANGED authVars
      ]_vars

\* the selection was emptied after a render and generate was clicked: the
\* results are still shown and nothing is in flight
C16_Witness ==
    /\ last.op = "generate"
    /\ fileInputFiles = NoFile
    /\ generations = <<>>
    /\ ~resultsHidden
    /\ loadingHidden
    /\ currentFlashcards # <<>>

\* the flag is not set and the overlay covers the page
Locked ==
    ~sessionAuthenticated /\ ~passwordOverlayHidden

\* C17: while the session flag is unset and the overlay is visible the
\* file-selection, generate and export handlers act as they always do and
\* leave the flag and the overlay alone: a selection enables the button, a
\* generate click with a file starts a handler run and shows the loading
\* indicator, its request is sent, a successful response is stored and
\* rendered, and an export click offers the collection.
C17_HandlersDoNotConsultFlag ==
    [][Locked =>
         /\ last'.op \in {"select", "generate", "encoded", "encodeFailed",
                          "genResponse", "genException", "export"} =>
                UNCHANGED authVars
         /\ last'.op = "select" =>
                generateBtnDisabled' = (fileInputFiles' = NoFile)
         /\ (last'.op = "generate" /\ fileInputFiles # NoFile) =>
                /\ Len(generations') = Len(generations) + 1
                /\ generations'[Len(generations')].file = fileInputFiles
                /\ ~loadingHidden'
         /\ last'.op = "encoded" =>
                Cardinality(Requested(generations'))
                    = Cardinality(Requested(generations)) + 1
         /\ (last'.op = "genResponse" /\ last'.success) =>
                /\ currentFlashcards' = last'.flashcards
                /\ rendered' = [done |-> TRUE, cards |-> last'.flashcards]
                /\ Len(flashcardsContainer') = Len(last'.flashcards)
                /\ ~resultsHidden'
         /\ (last'.op = "export" /\ currentFlashcards # <<>>) =>
                last'.download.name = "flashcards.json"
      ]_vars

\* with the flag unset and the overlay visible a generation was requested
\* and its cards are rendered
C17_Witness ==
    /\ Locked
    /\ last.op = "genResponse"
    /\ last.success
    /\ rendered.done
    /\ flashcardsContainer # <<>>
    /\ currentFlashcards = last.flashcards
    /\ ~resultsHidden

\* how many of the loading, results and error containers are visible
VisibleContainers ==
    Cardinality({ c \in {"loading", "results", "error"} :
        \/ c = "loading" /\ ~loadingHidden
        \/ c = "results" /\ ~resultsHidden
        \/ c = "error" /\ ~errorHidden })

\* C18: at most one of the loading, results and error containers is visible
\* in every state; a generate click with a file selected leaves exactly one
\* visible, and from then on exactly one is visible after every step of
\* every handler, in whatever order clicks, reads and responses interleave,
\* until the page is loaded anew.
C18_OneContainerVisible ==
    [][/\ VisibleContainers <= 1
       /\ VisibleContainers' <= 1
       /\ (last'.op = "generate" /\ fileInputFiles # NoFile) =>
              VisibleContainers' = 1
       /\ (VisibleContainers = 1 /\ last'.op # "load") =>
              VisibleContainers' = 1
      ]_vars

\* a failure arrived after a success while another run was in flight: only
\* the error container is visible
C18_Witness ==
    /\ Completion(last)
    /\ rendered.done
    /\ generations # <<>>
    /\ ~errorHidden
    /\ resultsHidden
    /\ loadingHidden
    /\ VisibleContainers = 1

\* C19: while the loading indicator is visible the handler run issued last
\* is still in flight, at its encoding or at its request; every completion
\* hides the indicator, so it is hidden once no run is in flight.  (A
\* completion hides it also while another run is still in flight.)
C19_LoadingImpliesInFlight ==
    [][/\ ~loadingHidden' =>
              /\ generations' # <<>>
              /\ generations'[Len(generations')].newest
       /\ Completion(last') => loadingHidden'
       /\ generations' = <<>> => loadingHidden'
      ]_vars

\* one of two overlapping runs has completed: the indicator is hidden while
\* the other run is still in flight
C19_Witness ==
    /\ Completion(last)
    /\ loadingHidden
    /\ Len(generations) = 1
    /\ generations[1].pc = "fetching"

\* C20: whenever the overlay is hidden the flag is true; no step shows the
\* overlay again or clears the flag; a rejected response or a request
\* exception handled while the overlay is hidden shows the error indicator
\* and leaves the overlay hidden and the flag true.
C20_HiddenOverlayMeansAuthenticated ==
    [][/\ passwordOverlayHidden => sessionAuthenticated
       /\ passwordOverlayHidden' => sessionAuthenticated'
       /\ passwordOverlayHidden => passwordOverlayHidden'
       /\ (passwordOverlayHidden
             /\ (RejectedResponse(last') \/ last'.op = "pwException")) =>
              /\ ~passwordErrorHidden'
              /\ passwordOverlayHidden'
              /\ sessionAuthenticated'
      ]_vars

\* a request exception was handled after an accepted submission: the error
\* indicator is shown over a page whose overlay stays hidden
C20_Witness ==
    /\ last.op = "pwException"
    /\ passwordOverlayHidden
    /\ sessionAuthenticated
    /\ ~passwordErrorHidden
    /\ passwordErrorText = VerifyErrorText

\* a generation ended without cards: negative response, request exception
\* or failed read
FailedGeneration(l) ==
    \/ l.op = "genResponse" /\ ~l.success
    \/ l.op = "genException"
    \/ l.op = "encodeFailed"

\* C11: no outcome shuts the page against a further attempt.  A rejected
\* response and a request exception leave the flag and the overlay as they
\* were and count nothing; whenever no password request is pending a
\* submission can be made, and an accepted response sets the flag and hides
\* the overlay whatever came before.  A failed generation leaves the
\* selection and the enabled state of the generate action as they were;
\* whenever no generation is pending the click can be made, with a file
\* selected it starts a new handler run, and a successful response is
\* stored and rendered whatever came before.
C11_ErrorsDoNotDisableRetry ==
    [][/\ (RejectedResponse(last') \/ last'.op = "pwException") =>
              UNCHANGED <<sessionAuthenticated, passwordOverlayHidden>>
       /\ pwRequests = EmptyBag => ENABLED SubmitPassword
       /\ last'.op = "submit" =>
              pwRequests' = pwRequests (+) SetToBag({passwordInput})
       /\ AcceptedResponse(last') =>
              /\ sessionAuthenticated'
              /\ passwordOverlayHidden'
       /\ FailedGeneration(last') =>
              /\ UNCHANGED intakeVars
              /\ ~errorHidden'
       /\ generations = <<>> => ENABLED GenerateClick
       /\ (last'.op = "generate" /\ fileInputFiles # NoFile) =>
              /\ Len(generations') = Len(generations) + 1
              /\ generations'[Len(generations')].pc = "encoding"
       /\ (last'.op = "encoded" /\ generations # <<>>) =>
              generations'[1].pc = "fetching"
       /\ (last'.op = "genResponse" /\ last'.success) =>
              /\ currentFlashcards' = last'.flashcards
              /\ rendered' = [done |-> TRUE, cards |-> last'.flashcards]
              /\ Len(flashcardsContainer') = Len(last'.flashcards)
              /\ ~resultsHidden'
              /\ errorHidden'
      ]_vars

\* on a page loaded without the flag, after a request exception of a
\* password submission and after a failed generation, a submission was
\* accepted and a generation rendered
C11_Witness ==
    /\ AcceptedResponse(last)
    /\ sessionAuthenticated
    /\ passwordOverlayHidden
    /\ passwordErrorText = VerifyErrorText
    /\ errorText # <<>>
    /\ rendered.done
    /\ ~resultsHidden
    /\ ~generateBtnDisabled
=============================================================================
